---- MODULE Spec2Model ----
(***************************************************************************)
(* Model of bot.py: the debt-collection voice bot.                         *)
(*                                                                         *)
(* One process holds ONE OpenAILLMContext (bot.py:162), ONE registered     *)
(* CollectionProcessor (bot.py:164,167) and ONE PipelineTask (bot.py:185). *)
(* The transport's connect / disconnect callbacks (bot.py:187-199) and the *)
(* tool handler save_repayment_date (bot.py:90-123) run on a cooperative   *)
(* event loop: a callback runs without interruption up to its next await.  *)
(* The handler is stepped statement by statement (variable pc); the only   *)
(* await inside it is the call of llm.process_frame at line 123, so the    *)
(* transport callbacks interleave only when the handler is idle or is      *)
(* suspended in that await.                                                *)
(*                                                                         *)
(* Amounts are counted in hundredths of a rupee (25000.00 is 2500000).     *)
(***************************************************************************)
EXTENDS Integers, Sequences, FiniteSets, TLC

\* ------------------------------------------------------------------ bounds
MaxSessions == 2      \* connect events the transport delivers
MaxWrites == 2        \* record-store commits
MaxTurns == 1         \* customer utterances over the process's life
MaxQueue == 2         \* frames waiting upstream of the language model

\* --------------------------------------------------------------- constants
CustomerId == "chad_bailey"
CustomerName == "Chad Bailey"
OverdueAmount == 2500000
ToolName == "save_repayment_date"

Sessions == 1..MaxSessions

\* The JSON values a tool-call payload can carry under "amount": a number
\* (in hundredths), a string, or nothing (key absent).
Num(n) == [t |-> "num", v |-> n]
StrAmount == [t |-> "str", v |-> 0]
NoAmount == [t |-> "absent", v |-> 0]
NoDate == "<absent>"

GoodDate == "2025-03-01"
OtherDate == "2025-04-15"
GoodAmount == Num(50000)
OtherAmount == Num(123456789)

\* args: the dict the model hands to the handler (a key may be absent). The
\* payloads tried: two well-formed ones (500.00 and 1,234,567.89), a negative
\* amount, an amount that is a string, and one with each key missing. The
\* handler never looks into the date string, so a date that is no date runs
\* as GoodDate does.
ArgsValues ==
    {[repayment_date |-> GoodDate, amount |-> GoodAmount],
     [repayment_date |-> OtherDate, amount |-> OtherAmount],
     [repayment_date |-> GoodDate, amount |-> Num(-500)],
     [repayment_date |-> GoodDate, amount |-> StrAmount],
     [repayment_date |-> NoDate, amount |-> GoodAmount],
     [repayment_date |-> GoodDate, amount |-> NoAmount]}
NoArgs == [repayment_date |-> NoDate, amount |-> NoAmount]
HasKey(args, k) ==
    IF k = "repayment_date" THEN args.repayment_date # NoDate
    ELSE args.amount # NoAmount

\* ------------------------------------------------- text of the instructions
Abs(n) == IF n < 0 THEN -n ELSE n

\* The digit groups of a whole number under the "," format option:
\* 25000 is <<25, 0>>, printed "25,000".
RECURSIVE Groups(_)
Groups(n) == IF n < 1000 THEN <<n>> ELSE Append(Groups(n \div 1000), n % 1000)

\* f"{x:,.2f}" of a number x given in hundredths: sign, digit groups, two decimals.
FormatAmount(x) ==
    [neg |-> x < 0, groups |-> Groups(Abs(x) \div 100), frac |-> Abs(x) % 100]

\* The number a formatted amount denotes (in hundredths).
RECURSIVE GroupsValue(_)
GroupsValue(g) ==
    IF Len(g) = 0 THEN 0
    ELSE GroupsValue(SubSeq(g, 1, Len(g) - 1)) * 1000 + g[Len(g)]
AmountDenoted(txt) ==
    (IF txt.neg THEN -1 ELSE 1) * (GroupsValue(txt.groups) * 100 + txt.frac)

NoText == [neg |-> FALSE, groups |-> <<>>, frac |-> 0]

\* The persona instruction of the constructor: it names the customer and
\* quotes the overdue amount.
PersonaMessage(customer_name, overdue_amount) ==
    [role |-> "system", kind |-> "persona", name |-> customer_name,
     date |-> NoDate, amount |-> FormatAmount(overdue_amount)]

\* The closing instruction of the handler: it quotes the promised amount and date.
ClosingMessage(a) ==
    [role |-> "system", kind |-> "closing", name |-> "",
     date |-> a.repayment_date, amount |-> FormatAmount(a.amount.v)]

\* What context_aggregator.user() appends: an utterance of the customer. (The
\* agent's own utterances, which context_aggregator.assistant() appends, are
\* not kept: nothing in the handler or the callbacks reads them.)
UserMessage ==
    [role |-> "user", kind |-> "speech", name |-> "", date |-> NoDate, amount |-> NoText]

\* The tool schema set_tools installs.
SaveRepaymentDateSchema ==
    [type |-> "function", name |-> ToolName, required |-> {"repayment_date", "amount"}]

\* Mutant of Construct: the constructor forgets set_tools.
Construct_NoSetTools(ctx, customer_name, overdue_amount) ==
    [messages |-> Append(ctx.messages, PersonaMessage(customer_name, overdue_amount)),
     tools |-> ctx.tools]

\* CollectionProcessor.__init__ acting on a context: one add_message, one set_tools.
Construct(ctx, customer_name, overdue_amount) ==
    [messages |-> Append(ctx.messages, PersonaMessage(customer_name, overdue_amount)),
     tools |-> {SaveRepaymentDateSchema}]

\* The fields the constructor keeps on self.
Processor(customer_id, overdue_amount) ==
    [customer_id |-> customer_id, overdue_amount |-> overdue_amount]

\* Mutant of ClearMessages: the reset is left out.
ClearMessages_Keep(ctx) == ctx

\* context.messages.clear()
ClearMessages(ctx) == [ctx EXCEPT !.messages = <<>>]

\* ------------------------------------------------------------ record store
\* The store is taken at the interface the handler uses: update of an existing
\* document sets the named fields, resolves SERVER_TIMESTAMP to the commit
\* time and applies ArrayUnion; update of a missing document raises. Commit
\* times of one document strictly increase.
SERVER_TIMESTAMP == [ts |-> -1]

\* Mutant of UpdateData: the history entry carries a date fixed by the client
\* instead of SERVER_TIMESTAMP.
UpdateData_ClientDate(self, a) ==
    [fields |-> [promised_repayment_date |-> a.repayment_date,
                 promised_amount |-> a.amount,
                 overdue_amount |-> Num(self.overdue_amount),
                 contact_type |-> "phone_call",
                 commitment_status |-> "pending"],
     server_time |-> {"commitment_made_at", "last_contact"},
     array_union |-> <<[date |-> [ts |-> 0],
                        promised_date |-> a.repayment_date,
                        promised_amount |-> a.amount,
                        status |-> "pending"]>>]

\* Mutant of UpdateData: overdue_amount is written from the payload.
UpdateData_OverdueFromArgs(self, a) ==
    [fields |-> [promised_repayment_date |-> a.repayment_date,
                 promised_amount |-> a.amount,
                 overdue_amount |-> a.amount,
                 contact_type |-> "phone_call",
                 commitment_status |-> "pending"],
     server_time |-> {"commitment_made_at", "last_contact"},
     array_union |-> <<[date |-> SERVER_TIMESTAMP,
                        promised_date |-> a.repayment_date,
                        promised_amount |-> a.amount,
                        status |-> "pending"]>>]

\* The argument of user_ref.update: plain fields, fields set to the server
\* time, and the ArrayUnion transform.
UpdateData(self, a) ==
    [fields |-> [promised_repayment_date |-> a.repayment_date,
                 promised_amount |-> a.amount,
                 overdue_amount |-> Num(self.overdue_amount),
                 contact_type |-> "phone_call",
                 commitment_status |-> "pending"],
     server_time |-> {"commitment_made_at", "last_contact"},
     array_union |-> <<[date |-> SERVER_TIMESTAMP,
                        promised_date |-> a.repayment_date,
                        promised_amount |-> a.amount,
                        status |-> "pending"]>>]

Merge(doc, upd) ==
    [f \in DOMAIN doc \cup DOMAIN upd |-> IF f \in DOMAIN upd THEN upd[f] ELSE doc[f]]

InSeq(x, seq) == \E i \in DOMAIN seq : seq[i] = x

\* firestore.ArrayUnion: each element is appended unless the array holds it.
RECURSIVE ArrayUnion(_, _)
ArrayUnion(arr, elems) ==
    IF Len(elems) = 0 THEN arr
    ELSE ArrayUnion(IF InSeq(Head(elems), arr) THEN arr ELSE Append(arr, Head(elems)),
                    Tail(elems))

History(doc) == IF "payment_history" \in DOMAIN doc THEN doc.payment_history ELSE <<>>

\* The document after the store has applied one update at server time now.
ApplyUpdate(doc, upd, now) ==
    LET stamped == [i \in DOMAIN upd.array_union |->
                       IF upd.array_union[i].date = SERVER_TIMESTAMP
                       THEN [upd.array_union[i] EXCEPT !.date = [ts |-> now]]
                       ELSE upd.array_union[i]]
    IN  Merge(Merge(Merge(doc, upd.fields),
                    [f \in upd.server_time |-> [ts |-> now]]),
              [payment_history |-> ArrayUnion(History(doc), stamped)])

\* The customer document as it exists before any call (created elsewhere).
InitialDoc == [name |-> CustomerName]

\* The collection also holds documents of customers this process never calls.
OtherCustomerId == "another_customer"
OtherDoc == [name |-> "Another Customer"]

VARIABLES
    context,      \* the one OpenAILLMContext: [messages, tools]
    collection,   \* the registered CollectionProcessor: [customer_id, overdue_amount]
    users,        \* Firestore collection 'users': document id -> document
    commits,      \* number of updates the store has committed
    clock,        \* the store's server time
    queue,        \* frames waiting upstream of the language model
    taskDone,     \* the PipelineTask has processed an EndFrame
    live,         \* sessions connected and not yet disconnected
    nextSession,  \* handle of the next connecting client
    turns,        \* customer utterances so far
    pc,           \* position of the handler save_repayment_date
    args,         \* payload of the invocation in progress
    inv,          \* history of the current / latest invocation
    sessWrites,   \* history: commits while each session was live
    called,       \* history: sessions during which an invocation was dispatched
    epoch,        \* history since the latest connect
    last          \* the step taken last

vars == <<context, collection, users, commits, clock, queue, taskDone, live,
          nextSession, turns, pc, args, inv, sessWrites, called, epoch, last>>

\* The step taken last; a connect also records the messages it cleared.
Step(name) == [step |-> name, dropped |-> <<>>]

\* The history of an invocation is kept until the next step after its end.
\* pre: the context at dispatch; trace: the effects so far, in order;
\* storeFailed: user_ref.update raised; result: how the handler ended;
\* disconnected: a disconnect was observed while the invocation was in flight.
NoContext == [messages |-> <<>>, tools |-> {}]
NoInvocation ==
    [pre |-> NoContext, trace |-> <<>>, storeFailed |-> FALSE, result |-> "none",
     disconnected |-> FALSE]

\* The history since the latest connect: commits, whether an invocation has
\* cleared the tools, whether the context was forwarded downstream.
NewEpoch == [writes |-> 0, captured |-> FALSE, forwarded |-> FALSE]
Settled == IF pc = "idle" THEN NoInvocation ELSE inv
SettledOnDisconnect ==
    IF pc = "idle" THEN NoInvocation ELSE [inv EXCEPT !.disconnected = TRUE]

\* ------------------------------------------------------------------- Init
\* main() up to runner.run: context built, handler constructed on it and
\* registered, task created, nobody connected.
Init ==
    /\ context = Construct(NoContext, CustomerName, OverdueAmount)
    /\ collection = Processor(CustomerId, OverdueAmount)
    /\ \E ids \in SUBSET {CustomerId} :
         users = [id \in ids \cup {OtherCustomerId} |->
                    IF id = CustomerId THEN InitialDoc ELSE OtherDoc]
    /\ commits = 0
    /\ clock = 1
    /\ queue = <<>>
    /\ taskDone = FALSE
    /\ live = {}
    /\ nextSession = 1
    /\ turns = 0
    /\ pc = "idle"
    /\ args = NoArgs
    /\ inv = NoInvocation
    /\ sessWrites = [s \in Sessions |-> 0]
    /\ called = {}
    /\ epoch = NewEpoch
    /\ last = Step("init")

\* A callback of the event loop can start: the task runs, and the handler is
\* not in the middle of its synchronous statements.
CanInterleave == ~taskDone /\ pc \in {"idle", "awaiting"}

Bump(f, S) == [s \in Sessions |-> IF s \in S THEN f[s] + 1 ELSE f[s]]

\* Mutant of HandlerOrder: the closing instruction is installed before the write.
HandlerOrder_MessageFirst == <<"message", "update", "set_tools", "forward">>

\* The statements of the handler in the order of the source: the store update
\* (94-109), add_message (111-120), set_tools([]) (122), the call of
\* llm.process_frame (123).
HandlerOrder == <<"update", "message", "set_tools", "forward">>

\* The position after statement p has completed.
After(p) ==
    LET i == CHOOSE k \in DOMAIN HandlerOrder : HandlerOrder[k] = p
    IN  IF i < Len(HandlerOrder) THEN HandlerOrder[i + 1] ELSE "awaiting"

\* ------------------------------------------------------ transport callbacks
\* Mutant of OnClientConnected: the callback registers the handler it
\* constructs, bound to the customer of the connecting client.
OnClientConnected_Rebinds(s) ==
    /\ CanInterleave
    /\ s = nextSession
    /\ s <= MaxSessions
    /\ Len(queue) < MaxQueue
    /\ context' = Construct(ClearMessages(context), CustomerName, OverdueAmount)
    /\ collection' = Processor(IF s = 1 THEN CustomerId ELSE OtherCustomerId,
                               OverdueAmount)
    /\ queue' = Append(queue, "context")
    /\ live' = live \cup {s}
    /\ nextSession' = s + 1
    /\ epoch' = NewEpoch
    /\ last' = [step |-> "connect", dropped |-> context.messages]
    /\ inv' = Settled
    /\ UNCHANGED <<users, commits, clock, taskDone, turns, pc, args,
                   sessWrites, called>>

\* The transport may deliver a connect while an earlier client is connected;
\* every connect runs the same callback on the same context.
\* on_client_connected: clear the messages of the shared context, construct a
\* CollectionProcessor on it (bound to a local name, the registered handler
\* stays), queue the context frame.
OnClientConnected(s) ==
    /\ CanInterleave
    /\ s = nextSession
    /\ s <= MaxSessions
    /\ Len(queue) < MaxQueue
    /\ context' = Construct(ClearMessages(context), CustomerName, OverdueAmount)
    /\ queue' = Append(queue, "context")
    /\ live' = live \cup {s}
    /\ nextSession' = s + 1
    /\ epoch' = NewEpoch
    /\ last' = [step |-> "connect", dropped |-> context.messages]
    /\ inv' = Settled
    /\ UNCHANGED <<collection, users, commits, clock, taskDone, turns, pc, args,
                   sessWrites, called>>

\* Mutant of OnClientDisconnected: the callback also stamps last_contact on
\* the customer document.
OnClientDisconnected_Stamps(s) ==
    /\ CanInterleave
    /\ s \in live
    /\ Len(queue) < MaxQueue
    /\ collection.customer_id \in DOMAIN users
    /\ users' = [users EXCEPT ![collection.customer_id] =
                    Merge(@, [last_contact |-> [ts |-> clock]])]
    /\ commits' = commits + 1
    /\ clock' = clock + 1
    /\ sessWrites' = Bump(sessWrites, live)
    /\ epoch' = [epoch EXCEPT !.writes = @ + 1]
    /\ queue' = Append(queue, "end")
    /\ live' = live \ {s}
    /\ last' = Step("disconnect")
    /\ inv' = SettledOnDisconnect
    /\ UNCHANGED <<context, collection, taskDone, nextSession, turns, pc, args, called>>

\* on_client_disconnected: queue an EndFrame.
OnClientDisconnected(s) ==
    /\ CanInterleave
    /\ s \in live
    /\ Len(queue) < MaxQueue
    /\ queue' = Append(queue, "end")
    /\ live' = live \ {s}
    /\ last' = Step("disconnect")
    /\ inv' = SettledOnDisconnect
    /\ UNCHANGED <<context, collection, users, commits, clock, taskDone, nextSession,
                   turns, pc, args, sessWrites, called, epoch>>

\* ------------------------------------------------------------- the pipeline
\* transport.input -> stt -> context_aggregator.user(): an utterance of a
\* connected customer is appended to the context, and the context goes to the
\* language model.
UserTurn(s) ==
    /\ CanInterleave
    /\ s \in live
    /\ turns < MaxTurns
    /\ Len(queue) < MaxQueue
    /\ context' = [context EXCEPT !.messages = Append(@, UserMessage)]
    /\ queue' = Append(queue, "context")
    /\ turns' = turns + 1
    /\ last' = Step("user")
    /\ inv' = Settled
    /\ UNCHANGED <<collection, users, commits, clock, taskDone, live, nextSession,
                   pc, args, sessWrites, called, epoch>>

\* The functions the language model may call on a context: the registered
\* ones whose schema the context carries in its tools.
Callable(ctx) == {t.name : t \in ctx.tools} \cap {ToolName}

\* llm answers a context frame with speech.
LLMReply ==
    /\ ~taskDone
    /\ pc = "idle"
    /\ queue # <<>>
    /\ Head(queue) = "context"
    /\ queue' = Tail(queue)
    /\ last' = Step("reply")
    /\ inv' = Settled
    /\ UNCHANGED <<context, collection, users, commits, clock, taskDone, live, nextSession,
                   turns, pc, args, sessWrites, called, epoch>>

\* llm answers a context frame with a call of save_repayment_date: the
\* registered handler starts with the payload a.
LLMFunctionCall(a) ==
    /\ ~taskDone
    /\ pc = "idle"
    /\ queue # <<>>
    /\ Head(queue) = "context"
    /\ ToolName \in Callable(context)
    /\ commits < MaxWrites
    /\ queue' = Tail(queue)
    /\ pc' = HandlerOrder[1]
    /\ args' = a
    /\ inv' = [NoInvocation EXCEPT !.result = "running", !.pre = context]
    /\ called' = called \cup live
    /\ last' = Step("call")
    /\ UNCHANGED <<context, collection, users, commits, clock, taskDone, live,
                   nextSession, turns, sessWrites, epoch>>

\* The EndFrame reaches the end of the pipeline: the task is done, runner.run
\* returns and main ends.
ProcessEndFrame ==
    /\ ~taskDone
    /\ pc = "idle"
    /\ queue # <<>>
    /\ Head(queue) = "end"
    /\ queue' = Tail(queue)
    /\ taskDone' = TRUE
    /\ last' = Step("end")
    /\ inv' = Settled
    /\ UNCHANGED <<context, collection, users, commits, clock, live, nextSession,
                   turns, pc, args, sessWrites, called, epoch>>

\* ------------------------------------------------------ save_repayment_date
\* An exception leaves the handler: nothing after the raising statement runs.
Raise(kind) ==
    /\ pc' = "idle"
    /\ args' = NoArgs
    /\ inv' = [inv EXCEPT !.result = kind]
    /\ UNCHANGED <<context, collection, users, commits, clock, queue, taskDone, live,
                   nextSession, turns, sessWrites, called, epoch>>

\* Mutant of SaveUpdate: an exception of user_ref.update is caught and the
\* handler goes on.
SaveUpdate_Swallows ==
    /\ pc = "update"
    /\ last' = Step("update")
    /\ IF ~HasKey(args, "repayment_date") \/ ~HasKey(args, "amount")
       THEN Raise("KeyError")
       ELSE \E reachable \in BOOLEAN :
              IF reachable /\ collection.customer_id \in DOMAIN users
              THEN /\ users' = [users EXCEPT ![collection.customer_id] =
                                   ApplyUpdate(@, UpdateData(collection, args), clock)]
                   /\ commits' = commits + 1
                   /\ clock' = clock + 1
                   /\ sessWrites' = Bump(sessWrites, live)
                   /\ epoch' = [epoch EXCEPT !.writes = @ + 1]
                   /\ inv' = [inv EXCEPT !.trace = Append(@, "write")]
                   /\ pc' = After("update")
                   /\ UNCHANGED <<context, collection, queue, taskDone, live,
                                  nextSession, turns, args, called>>
              ELSE /\ pc' = After("update")
                   /\ inv' = [inv EXCEPT !.storeFailed = TRUE]
                   /\ UNCHANGED <<context, collection, users, commits, clock, queue,
                                  taskDone, live, nextSession, turns, args, sessWrites,
                                  called, epoch>>

\* Mutant of SaveUpdate: the write is a set(..., merge=True), which creates
\* the document when the store holds none.
SaveUpdate_Upserts ==
    /\ pc = "update"
    /\ last' = Step("update")
    /\ IF ~HasKey(args, "repayment_date") \/ ~HasKey(args, "amount")
       THEN Raise("KeyError")
       ELSE \E reachable \in BOOLEAN :
              IF reachable
              THEN /\ users' =
                        [id \in DOMAIN users \cup {collection.customer_id} |->
                           IF id = collection.customer_id
                           THEN ApplyUpdate(IF id \in DOMAIN users THEN users[id]
                                            ELSE [f \in {} |-> 0],
                                            UpdateData(collection, args), clock)
                           ELSE users[id]]
                   /\ commits' = commits + 1
                   /\ clock' = clock + 1
                   /\ sessWrites' = Bump(sessWrites, live)
                   /\ epoch' = [epoch EXCEPT !.writes = @ + 1]
                   /\ inv' = [inv EXCEPT !.trace = Append(@, "write")]
                   /\ pc' = After("update")
                   /\ UNCHANGED <<context, collection, queue, taskDone, live,
                                  nextSession, turns, args, called>>
              ELSE /\ pc' = "idle"
                   /\ args' = NoArgs
                   /\ inv' = [inv EXCEPT !.result = "StoreError", !.storeFailed = TRUE]
                   /\ UNCHANGED <<context, collection, users, commits, clock, queue,
                                  taskDone, live, nextSession, turns, sessWrites,
                                  called, epoch>>

\* Lines 94-109: build the update (a missing key raises KeyError before the
\* store is called) and call user_ref.update, which raises when the store
\* cannot be reached or holds no document of that id.
SaveUpdate ==
    /\ pc = "update"
    /\ last' = Step("update")
    /\ IF ~HasKey(args, "repayment_date") \/ ~HasKey(args, "amount")
       THEN Raise("KeyError")
       ELSE \E reachable \in BOOLEAN :
              IF reachable /\ collection.customer_id \in DOMAIN users
              THEN /\ users' = [users EXCEPT ![collection.customer_id] =
                                   ApplyUpdate(@, UpdateData(collection, args), clock)]
                   /\ commits' = commits + 1
                   /\ clock' = clock + 1
                   /\ sessWrites' = Bump(sessWrites, live)
                   /\ epoch' = [epoch EXCEPT !.writes = @ + 1]
                   /\ inv' = [inv EXCEPT !.trace = Append(@, "write")]
                   /\ pc' = After("update")
                   /\ UNCHANGED <<context, collection, queue, taskDone, live,
                                  nextSession, turns, args, called>>
              ELSE /\ pc' = "idle"
                   /\ args' = NoArgs
                   /\ inv' = [inv EXCEPT !.result = "StoreError", !.storeFailed = TRUE]
                   /\ UNCHANGED <<context, collection, users, commits, clock, queue,
                                  taskDone, live, nextSession, turns, sessWrites,
                                  called, epoch>>

\* Lines 111-120: format the closing instruction (a payload whose amount is no
\* number raises ValueError in the format) and append it.
SaveMessage ==
    /\ pc = "message"
    /\ last' = Step("message")
    /\ IF args.amount.t # "num"
       THEN Raise("ValueError")
       ELSE /\ context' = [context EXCEPT !.messages = Append(@, ClosingMessage(args))]
            /\ inv' = [inv EXCEPT !.trace = Append(@, "message")]
            /\ pc' = After("message")
            /\ UNCHANGED <<collection, users, commits, clock, queue, taskDone, live,
                           nextSession, turns, args, sessWrites, called, epoch>>

\* Mutant of SaveSetTools: the tools are left installed.
SaveSetTools_KeepsTools ==
    /\ pc = "set_tools"
    /\ inv' = [inv EXCEPT !.trace = Append(@, "set_tools")]
    /\ epoch' = [epoch EXCEPT !.captured = TRUE]
    /\ pc' = After("set_tools")
    /\ last' = Step("set_tools")
    /\ UNCHANGED <<context, collection, users, commits, clock, queue, taskDone, live,
                   nextSession, turns, args, sessWrites, called>>

\* Line 122: context.set_tools([]).
SaveSetTools ==
    /\ pc = "set_tools"
    /\ context' = [context EXCEPT !.tools = {}]
    /\ inv' = [inv EXCEPT !.trace = Append(@, "set_tools")]
    /\ epoch' = [epoch EXCEPT !.captured = TRUE]
    /\ pc' = After("set_tools")
    /\ last' = Step("set_tools")
    /\ UNCHANGED <<collection, users, commits, clock, queue, taskDone, live,
                   nextSession, turns, args, sessWrites, called>>

\* Line 123, the call: the context frame is handed to llm.process_frame and the
\* handler is suspended.
SaveForward ==
    /\ pc = "forward"
    /\ inv' = [inv EXCEPT !.trace = Append(@, "forward")]
    /\ epoch' = [epoch EXCEPT !.forwarded = TRUE]
    /\ pc' = After("forward")
    /\ last' = Step("forward")
    /\ UNCHANGED <<context, collection, users, commits, clock, queue, taskDone, live,
                   nextSession, turns, args, sessWrites, called>>

\* Line 123, the return: the model has spoken on the forwarded context (which
\* carried no tool, so it called nothing), its speech has been pushed
\* downstream towards tts and transport.output(), and the handler ends.
SaveReturn ==
    /\ pc = "awaiting"
    /\ inv' = [inv EXCEPT !.result = "ok"]
    /\ pc' = "idle"
    /\ args' = NoArgs
    /\ last' = Step("return")
    /\ UNCHANGED <<context, collection, users, commits, clock, queue, taskDone, live,
                   nextSession, turns, sessWrites, called, epoch>>

Next ==
    \/ \E s \in Sessions : OnClientConnected(s)
    \/ \E s \in Sessions : OnClientDisconnected(s)
    \/ \E s \in Sessions : UserTurn(s)
    \/ LLMReply
    \/ \E a \in ArgsValues : LLMFunctionCall(a)
    \/ ProcessEndFrame
    \/ SaveUpdate
    \/ SaveMessage
    \/ SaveSetTools
    \/ SaveForward
    \/ SaveReturn

Spec == Init /\ [][Next]_vars

\* ------------------------------------------------------------------ claims
Connected(s) == s < nextSession
Ended(s) == Connected(s) /\ s \notin live
HasClosing(msgs) == \E i \in DOMAIN msgs : msgs[i].kind = "closing"
IsPrefix(p, q) == Len(p) <= Len(q) /\ SubSeq(q, 1, Len(p)) = p
Doc == users[collection.customer_id]

\* C1: every call session, from its connect to its disconnect, sees at most
\* one commitment write to the record store.
C1_AtMostOneWritePerSession == \A s \in Sessions : sessWrites[s] <= 1

\* C2: once a successful invocation has cleared the tools of the context, and
\* until the next connect, no step dispatches the handler again and no step
\* writes to the record store.
C2_NoSecondInvocation ==
    [][(epoch.captured /\ epoch'.captured)
         => (pc' # HandlerOrder[1] /\ commits' = commits /\ users' = users)]_vars

\* C2 witness: the tools were cleared by a successful invocation, the handler
\* has ended, and the model is about to answer another context frame of the
\* same context.
C2_Witness ==
    /\ epoch.captured
    /\ context.tools = {}
    /\ pc = "idle"
    /\ ~taskDone
    /\ queue # <<>>
    /\ Head(queue) = "context"

\* C3: when the synchronous part of a successful invocation with payload
\* (d, a) has run, the customer document holds promised_repayment_date = d,
\* promised_amount = a, overdue_amount = the handler's overdue amount,
\* contact_type = phone_call and commitment_status = pending; the context is
\* the context at dispatch plus exactly one system message that quotes d and
\* a; and the context carries no tool.
C3_SuccessfulInvocation ==
    last.step = "forward" =>
        /\ Doc.promised_repayment_date = args.repayment_date
        /\ Doc.promised_amount = args.amount
        /\ Doc.overdue_amount = Num(collection.overdue_amount)
        /\ Doc.contact_type = "phone_call"
        /\ Doc.commitment_status = "pending"
        /\ Len(context.messages) = Len(inv.pre.messages) + 1
        /\ SubSeq(context.messages, 1, Len(inv.pre.messages)) = inv.pre.messages
        /\ LET m == context.messages[Len(context.messages)]
           IN  /\ m.role = "system"
               /\ m.date = args.repayment_date
               /\ AmountDenoted(m.amount) = args.amount.v
        /\ context.tools = {}

\* C3 witness: a successful invocation with the payload that needs digit
\* grouping (1,234,567.89 by 2025-04-15) has run up to the forward.
C3_Witness ==
    /\ last.step = "forward"
    /\ args = [repayment_date |-> OtherDate, amount |-> OtherAmount]
    /\ Len(inv.pre.messages) > 1

\* C4: the effects of an invocation happen in the order write, closing
\* message, tools cleared, forward; and no context holds a closing
\* instruction, and none was forwarded, unless a write has completed since
\* the connect that started the call.
C4_WriteBeforeClosing ==
    /\ IsPrefix(inv.trace, <<"write", "message", "set_tools", "forward">>)
    /\ (HasClosing(context.messages) => epoch.writes >= 1)
    /\ (epoch.forwarded => epoch.writes >= 1)
    /\ (pc \in {"update", "message"} => ~HasClosing(context.messages))

\* C4 witness: the write has completed and the closing instruction is not
\* installed yet.
C4_Witness ==
    /\ inv.trace = <<"write">>
    /\ pc = "message"
    /\ ~HasClosing(context.messages)

\* C5: when user_ref.update raises, the exception leaves the handler: it
\* ends with that error, with no effect at all, and the context is the
\* context at dispatch (no closing message, tools still installed, nothing
\* forwarded).
C5_StoreFailureAborts ==
    inv.storeFailed =>
        /\ inv.result = "StoreError"
        /\ pc = "idle"
        /\ inv.trace = <<>>
        /\ context = inv.pre
        /\ ~HasClosing(context.messages)
        /\ context.tools = {SaveRepaymentDateSchema}
        /\ ~epoch.forwarded

\* C5 witness: the update raised on a document that exists (the store could
\* not be reached), in a call whose customer has already spoken.
C5_Witness ==
    /\ inv.storeFailed
    /\ collection.customer_id \in DOMAIN users
    /\ Len(context.messages) > 1

\* C6: an invocation whose payload is malformed (a key missing, an amount
\* that is no number or is not positive) writes nothing to the record store.
Malformed(a) ==
    \/ ~HasKey(a, "repayment_date")
    \/ ~HasKey(a, "amount")
    \/ a.amount.t # "num"
    \/ a.amount.v <= 0
C6_MalformedPersistsNothing ==
    (pc # "idle" /\ Malformed(args)) => ~InSeq("write", inv.trace)

\* C7: a connect of one session leaves the context of every other live
\* session (its messages and its tools) unchanged.
C7_ContextsIsolated ==
    [][\A s \in live :
         (\E t \in Sessions \ {s} : t \notin live /\ t \in live')
            => context' = context]_vars

\* C8: right after a connect the context holds exactly one message, the
\* persona instruction of the new call.
C8_ConnectResetsMessages ==
    last.step = "connect" =>
        context.messages = <<PersonaMessage(CustomerName, OverdueAmount)>>

\* C8 witness: a connect has just cleared a context that held the closing
\* instruction of the call before.
C8_Witness ==
    /\ last.step = "connect"
    /\ HasClosing(last.dropped)
    /\ Len(last.dropped) > 2

\* C9: the construction in main and every construction on connect leave a
\* context that ends with the one system message the constructor appended,
\* carries exactly one tool schema, save_repayment_date with required fields
\* repayment_date and amount, and the step touches no record of the store.
ConstructedOn(before, after) ==
    /\ Len(after.messages) = Len(before.messages) + 1
    /\ SubSeq(after.messages, 1, Len(before.messages)) = before.messages
    /\ after.messages[Len(after.messages)].role = "system"
    /\ Cardinality(after.tools) = 1
    /\ \A t \in after.tools :
         t.name = "save_repayment_date" /\ t.required = {"repayment_date", "amount"}
C9_Construction ==
    /\ ConstructedOn(NoContext, context) /\ commits = 0
    /\ [][last'.step = "connect"
            => /\ ConstructedOn(ClearMessages(context), context')
               /\ users' = users
               /\ commits' = commits]_vars

\* C9 witness: a handler has just been constructed on the context of a call
\* that had cleared its tools, and the store holds an earlier commitment.
C9_Witness ==
    /\ last.step = "connect"
    /\ Cardinality(context.tools) = 1
    /\ commits > 0

\* C10: a session that has connected and disconnected with no invocation
\* dispatched in between has seen no record-store write.
C10_NoCallNoWrite ==
    \A s \in Sessions : (Ended(s) /\ s \notin called) => sessWrites[s] = 0

\* C10 witness: a session connected and disconnected without an invocation,
\* and the task is still running.
C10_Witness ==
    /\ \E s \in Sessions : Ended(s) /\ s \notin called
    /\ ~taskDone

\* C11: when a disconnect is observed while an invocation is in flight, the
\* record write of that invocation is complete (the document holds the whole
\* update), and the forwarded context is not answered downstream: the call of
\* llm.process_frame does not complete with the closing speech delivered.
C11_DisconnectSuppressesDelivery ==
    inv.disconnected =>
        /\ InSeq("write", inv.trace)
        /\ DOMAIN UpdateData(collection, NoArgs).fields \subseteq DOMAIN Doc
        /\ inv.result # "ok"

\* C12: once every connected call has been disconnected, no step commits a
\* write to the record store.
C12_NoWriteAfterDisconnect ==
    [][(live = {} /\ nextSession > 1) => commits' = commits]_vars

\* C13: no step changes the set of documents of the store or any document
\* other than the customer's; and an invocation for a customer whose document
\* does not exist ends with an error, commits nothing and creates nothing.
C13_DocumentSetUnchanged ==
    [][/\ DOMAIN users' = DOMAIN users
       /\ \A id \in DOMAIN users \ {collection.customer_id} : users'[id] = users[id]
       /\ (pc = "update" /\ collection.customer_id \notin DOMAIN users)
            => (users' = users /\ commits' = commits /\ pc' = "idle"
                /\ inv'.result \in {"KeyError", "StoreError"})]_vars

\* C13 witness: an invocation for a customer without a document has just
\* failed in user_ref.update, and the store still holds no such document.
C13_Witness ==
    /\ inv.storeFailed
    /\ inv.result = "StoreError"
    /\ collection.customer_id \notin DOMAIN users
    /\ OtherCustomerId \in DOMAIN users

C15_BindingFixed ==
    /\ collection = Processor(CustomerId, OverdueAmount)
    /\ users[OtherCustomerId] = OtherDoc
    /\ commits > 0 =>
         /\ CustomerId \in DOMAIN users
         /\ users[CustomerId].overdue_amount = Num(OverdueAmount)
         /\ Len(History(users[CustomerId])) = commits

\* C15 witness: a write has been committed during a session that connected
\* after the first one.
C15_Witness ==
    /\ \E s \in Sessions : s > 1 /\ sessWrites[s] > 0
    /\ collection.customer_id = CustomerId

\* C16: a disconnect ends the processing of the disconnecting call only: when
\* the pipeline task has ended, no other session is still connected and no
\* context frame of another session is left unprocessed behind the EndFrame.
C16_DisconnectEndsOnlyItsCall ==
    taskDone => (live = {} /\ ~InSeq("context", queue))

\* C17: a call starts awaiting the commitment, with the tools of the context
\* exactly {save_repayment_date} right after the connect callback, and once the
\* call has written a commitment and no invocation is running the tool is no
\* longer callable.
C17_ToolOnlyWhileAwaiting ==
    /\ last.step = "connect" => context.tools = {SaveRepaymentDateSchema}
    /\ (pc = "idle" /\ epoch.writes >= 1) => ToolName \notin Callable(context)

\* C18: the write and the closing of the call are all-or-nothing: when no
\* invocation is running, the call has written a commitment exactly when its
\* context holds the closing instruction and its tools are empty.
C18_AllOrNothing ==
    pc = "idle" =>
        ((epoch.writes >= 1) <=>
            (HasClosing(context.messages) /\ context.tools = {}))

====
